---- MODULE Spec2Model ----
(***************************************************************************)
(* Model of affinity/affinity.c (resetti): get_proc_affinity,              *)
(* get_proc_count, set_proc_affinity and get_error, together with the      *)
(* part of the kernel they talk to (sched_getaffinity, sched_setaffinity,  *)
(* sysconf(_SC_NPROCESSORS_ONLN), errno).                                  *)
(*                                                                         *)
(* Representation.  A uint64_t is the set of the indices of its 1 bits, a  *)
(* subset of 0..63: zero is {}, 2^i is {i}, x | y is x \cup y, x & y is    *)
(* x \cap y.  A cpu_set_t is the set of the cores it holds.  The two are   *)
(* different types in the program and every conversion between them is     *)
(* computed below by the loop the source runs.                             *)
(***************************************************************************)
EXTENDS Integers, FiniteSets, Sequences, TLC

VARIABLES
    nproc,      \* sysconf(_SC_NPROCESSORS_ONLN): cores 0..nproc-1 are online
    build,      \* what this build makes of `1 << i` for i >= 32 (undefined in C)
    affinity,   \* kernel: process -> the cores it may run on
    errno,      \* the thread's errno
    last,       \* the most recent shim call: arguments, OS outcome, result
    lastFail,   \* history: errno value set by the most recent failing OS call
    once        \* history: a get_proc_affinity that directly followed a set_proc_affinity

vars == <<nproc, build, affinity, errno, last, lastFail, once>>

-----------------------------------------------------------------------------
(* Widths of the C types involved *)

\* `1 << i` is an expression of type int
IntBits == 32
\* res, cpus and the return value of get_proc_affinity are uint64_t
U64Bits == 64

-----------------------------------------------------------------------------
(* The environment: processes, online cores, inputs *)

\* pid of the calling process (pid 0 names it in both syscalls)
SelfPid == 100
\* a process of another user: its affinity can be read, not set
InitPid == 1
\* no process has this pid
NoPid == 999999

Procs == {SelfPid, InitPid}
Pids == {0, InitPid, NoPid}

NprocChoices == {4, 32, 64}

\* "wrap": the shift count is taken mod 32 (x86-64, AArch64 shift instructions)
\* "zero": a count >= 32 shifts the bit out (32-bit ARM register shifts)
Builds == {"wrap", "zero"}

\* values of the cpus argument
Masks == { {}, {0}, {0, 2}, {40}, {63} }

\* what the uninitialized `res` may hold when the loop starts
Garbage == { {}, {1, 40} }

Target(pid) == IF pid = 0 THEN SelfPid ELSE pid
Exists(t) == t \in Procs
Permitted(t) == t # InitPid
Online(n) == 0 .. (n - 1)

-----------------------------------------------------------------------------
(* The value of (uint64_t)(1 << i) *)

\* 1 << i is computed in int.  For i < 31 it is 2^i.  For i = 31 it is INT_MIN,
\* which converts to 0xFFFFFFFF80000000.  For i >= 32 the build decides.
Shl1(i, b) ==
    LET s == IF i < IntBits THEN i
             ELSE IF b = "wrap" THEN i % IntBits ELSE -1
    IN IF s = -1 THEN {}
       ELSE IF s = IntBits - 1 THEN (IntBits - 1) .. (U64Bits - 1)
       ELSE {s}

-----------------------------------------------------------------------------
(* get_proc_affinity: cpu_set_t -> uint64_t *)

RECURSIVE GetLoop(_, _, _, _, _)
GetLoop(i, n, cpu_set, res, b) ==
    IF i < n
    THEN GetLoop(i + 1, n, cpu_set,
                 IF i \in cpu_set THEN res \cup Shl1(i, b) ELSE res, b)
    ELSE res

MutMaskOfCpuSet(cpu_set, n, res0, b) == GetLoop(1, n, cpu_set, res0, b)
\* the loop of lines 25-29 run on the uninitialized accumulator res0
MaskOfCpuSet(cpu_set, n, res0, b) == GetLoop(0, n, cpu_set, res0, b)

MutFailResult(res0) == res0
\* the value returned when sched_getaffinity fails
FailResult(res0) == {}

-----------------------------------------------------------------------------
(* set_proc_affinity: uint64_t -> cpu_set_t *)

RECURSIVE SetLoop(_, _, _, _, _)
SetLoop(i, n, cpus, cpu_set, b) ==
    IF i < n
    THEN SetLoop(i + 1, n, cpus,
                 IF (cpus \cap Shl1(i, b)) # {} THEN cpu_set \cup {i} ELSE cpu_set, b)
    ELSE cpu_set

MutCpuSetOfMask(cpus, n, b) == SetLoop(1, n, cpus, {}, b)
\* CPU_ZERO and the loop of lines 46-50
CpuSetOfMask(cpus, n, b) == SetLoop(0, n, cpus, {}, b)

-----------------------------------------------------------------------------
(* The kernel *)

\* errno value a failing sched_getaffinity sets, "" when it succeeds
GetAffinityError(pid) ==
    IF ~Exists(Target(pid)) THEN "ESRCH" ELSE ""

\* errno value a failing sched_setaffinity sets, "" when it succeeds
SetAffinityError(pid, cpu_set, n) ==
    IF ~Exists(Target(pid)) THEN "ESRCH"
    ELSE IF ~Permitted(Target(pid)) THEN "EPERM"
    ELSE IF cpu_set \cap Online(n) = {} THEN "EINVAL"
    ELSE ""

MutAffinityAfterSet(aff, t, cpu_set, n) == [q \in DOMAIN aff |-> cpu_set \cap Online(n)]
\* the affinities after sched_setaffinity succeeded on process t
AffinityAfterSet(aff, t, cpu_set, n) == [aff EXCEPT ![t] = cpu_set \cap Online(n)]

MutSetStatus(err) == 0
\* return value of sched_setaffinity, which set_proc_affinity returns
SetStatus(err) == IF err = "" THEN 0 ELSE -1

StrError(e) ==
    CASE e = "0" -> "Success"
      [] e = "ESRCH" -> "No such process"
      [] e = "EPERM" -> "Operation not permitted"
      [] e = "EINVAL" -> "Invalid argument"
      [] e = "ENOENT" -> "No such file or directory"

MutErrorMessage(e) == StrError("0")
\* get_error: strerror(errno)
ErrorMessage(e) == StrError(e)

-----------------------------------------------------------------------------
(* Call records *)

NoCall ==
    [op |-> "none", pid |-> 0, cpus |-> {}, err |-> "", req |-> {},
     status |-> 0, mask |-> {}, count |-> 0, msg |-> ""]

NoOnce == [age |-> 0, pid |-> 0, cpus |-> {}, status |-> 0, mask |-> {}]

\* an observation is kept for the one call that follows it
Age(o) == IF o.age = 1 THEN [o EXCEPT !.age = 2] ELSE NoOnce

NoteFail(err) == IF err = "" THEN lastFail ELSE err

-----------------------------------------------------------------------------
Init ==
    /\ nproc \in NprocChoices
    /\ build \in Builds
    /\ \E a \in {Online(nproc), {nproc - 1}} :
          affinity = [p \in Procs |-> IF p = SelfPid THEN a ELSE Online(nproc)]
    /\ errno = "0"
    /\ last = NoCall
    /\ lastFail = "none"
    /\ once = NoOnce

get_proc_affinity(pid, res0) ==
    \E err \in {GetAffinityError(pid)} :
    \E ret \in {IF err # ""
                 THEN FailResult(res0)
                 ELSE MaskOfCpuSet(affinity[Target(pid)], nproc, res0, build)} :
       /\ errno' = IF err # "" THEN err ELSE errno
       /\ lastFail' = NoteFail(err)
       /\ last' = [NoCall EXCEPT !.op = "get", !.pid = pid, !.err = err, !.mask = ret]
       /\ once' = IF last.op = "set" /\ Target(last.pid) = Target(pid)
                  THEN [age |-> 1, pid |-> Target(pid), cpus |-> last.cpus,
                        status |-> last.status, mask |-> ret]
                  ELSE Age(once)
       /\ UNCHANGED <<nproc, build, affinity>>

get_proc_count ==
    /\ last' = [NoCall EXCEPT !.op = "count", !.count = nproc]
    /\ once' = Age(once)
    /\ UNCHANGED <<nproc, build, affinity, errno, lastFail>>

set_proc_affinity(pid, cpus) ==
    \E cpu_set \in {CpuSetOfMask(cpus, nproc, build)} :
    \E err \in {SetAffinityError(pid, cpu_set, nproc)} :
       /\ affinity' = IF err = ""
                      THEN AffinityAfterSet(affinity, Target(pid), cpu_set, nproc)
                      ELSE affinity
       /\ errno' = IF err # "" THEN err ELSE errno
       /\ lastFail' = NoteFail(err)
       /\ last' = [NoCall EXCEPT !.op = "set", !.pid = pid, !.cpus = cpus,
                                 !.err = err, !.req = cpu_set, !.status = SetStatus(err)]
       /\ once' = Age(once)
       /\ UNCHANGED <<nproc, build>>

get_error ==
    /\ last' = [NoCall EXCEPT !.op = "error", !.msg = ErrorMessage(errno)]
    /\ once' = Age(once)
    /\ UNCHANGED <<nproc, build, affinity, errno, lastFail>>

Next ==
    \/ \E pid \in Pids, res0 \in Garbage : get_proc_affinity(pid, res0)
    \/ get_proc_count
    \/ \E pid \in Pids, cpus \in Masks : set_proc_affinity(pid, cpus)
    \/ get_error

Spec == Init /\ [][Next]_vars

-----------------------------------------------------------------------------
(* Properties *)

\* the process the most recent call named
LastTarget == Target(last.pid)
\* bits 31..63, the indices at which the width of `1 << i` matters
HighBits == (IntBits - 1) .. (U64Bits - 1)

\* C1: round trip. When get_proc_affinity(pid) directly follows a
\* set_proc_affinity(pid, mask) that returned 0, every bit i < processorCount
\* of mask is set in the value it returns.
C1_RoundTrip ==
    (once.age = 1 /\ once.status = 0)
        => \A i \in Online(nproc) : i \in once.cpus => i \in once.mask

C1_Witness ==
    /\ once.age = 1 /\ once.status = 0
    /\ nproc = 64 /\ once.cpus = {40} /\ 40 \in once.mask

\* C2: a successful get_proc_affinity returns exactly the process's affinity
\* set restricted to the online cores, bit for bit, and no bit at an index
\* >= processorCount.
C2_ExactMask ==
    (last.op = "get" /\ last.err = "")
        => last.mask = affinity[LastTarget] \cap Online(nproc)

\* C3 as stated: for a valid, permitted pid set_proc_affinity returns 0 for
\* every mask whose set bits are all below processorCount, the empty mask too.
C3_AnyMaskSucceeds ==
    (last.op = "set" /\ Exists(LastTarget) /\ Permitted(LastTarget)
        /\ last.cpus \subseteq Online(nproc))
        => last.status = 0

\* C3 amended: for a valid, permitted pid set_proc_affinity returns 0 for
\* every mask that has at least one bit set and whose set bits are all below
\* processorCount.
C3_NonEmptyMaskSucceeds ==
    (last.op = "set" /\ Exists(LastTarget) /\ Permitted(LastTarget)
        /\ last.cpus # {} /\ last.cpus \subseteq Online(nproc))
        => last.status = 0

C3_Witness ==
    /\ last.op = "set" /\ last.pid = 0 /\ last.cpus = {63} /\ nproc = 64
    /\ last.status = 0

\* C4: get_proc_affinity returns 0 whenever sched_getaffinity failed.
C4_FailureIsZero ==
    (last.op = "get" /\ last.err # "") => last.mask = {}

C4_Witness ==
    last.op = "get" /\ last.pid = NoPid /\ last.err = "ESRCH" /\ last.mask = {}

\* C5: set_proc_affinity returns 0 exactly when sched_setaffinity succeeded
\* and nonzero exactly when it failed, and a call that returns nonzero leaves
\* the affinity of every process as it was.
C5_StatusVerbatim ==
    [][ last'.op = "set" =>
          /\ (last'.status = 0) <=> (last'.err = "")
          /\ (last'.status # 0) => (affinity' = affinity) ]_vars

C5_Witness ==
    /\ last.op = "set" /\ last.pid = 0 /\ last.err = "EINVAL" /\ last.status = -1
    /\ affinity[SelfPid] = {0, 2}

\* C6: get_error returns the message of the error the most recent failing OS
\* call of the shim set, whatever succeeded since, and directly after
\* get_proc_affinity on a nonexistent pid that is the non-empty message
\* "No such process".
C6_LastError ==
    /\ [](last.op = "error" /\ lastFail # "none" => last.msg = StrError(lastFail))
    /\ [][ (last.op = "get" /\ last.pid = NoPid /\ last'.op = "error")
              => (last'.msg = "No such process" /\ last'.msg # "") ]_vars

C6_Witness ==
    /\ last.op = "error" /\ lastFail = "ESRCH" /\ last.msg = "No such process"
    /\ affinity[SelfPid] = {0, 2}

\* C7: set_proc_affinity is idempotent. In set(p, m); get(p); set(p, m); get(p)
\* the second set returns what the first returned and leaves every affinity as
\* the first left it, and the second get returns what the first returned.
C7_Idempotent ==
    /\ [][ (once.age = 1 /\ last'.op = "set" /\ Target(last'.pid) = once.pid
               /\ last'.cpus = once.cpus)
              => (last'.status = once.status /\ affinity' = affinity) ]_vars
    /\ [][ (once.age = 2 /\ last.op = "set" /\ LastTarget = once.pid
               /\ last.cpus = once.cpus /\ Exists(once.pid)
               /\ last'.op = "get" /\ Target(last'.pid) = once.pid)
              => last'.mask = once.mask ]_vars

\* C8: get_proc_affinity, get_proc_count and get_error change no affinity and
\* not the processor count; get_proc_count returns the same value >= 1 every
\* time; an affinity changes only in a set_proc_affinity that returns 0, and
\* then only that of the target process.
C8_ReadOnly ==
    [][ /\ last'.op \in {"get", "count", "error"}
            => (affinity' = affinity /\ nproc' = nproc)
        /\ last'.op = "count" => (last'.count = nproc /\ last'.count >= 1)
        /\ (last.op = "count" /\ last'.op = "count") => last'.count = last.count
        /\ affinity' # affinity
            => /\ last'.op = "set" /\ last'.status = 0
               /\ \A q \in Procs \ {Target(last'.pid)} : affinity'[q] = affinity[q]
      ]_vars

C8_Witness ==
    /\ last.op = "get" /\ last.pid = InitPid /\ last.err = ""
    /\ affinity[SelfPid] = {0, 2} /\ affinity[InitPid] = Online(nproc)

\* C9: with 64 processors, for every i in 31..63, set_proc_affinity(pid, 2^i)
\* requests the CPU set {i}, and get_proc_affinity of a process whose
\* affinity is {i} returns 2^i.
C9_AllSixtyFourBits ==
    nproc = 64 =>
        /\ (last.op = "set" /\ \E i \in HighBits : last.cpus = {i})
              => last.req = last.cpus
        /\ (last.op = "get" /\ last.err = ""
              /\ \E i \in HighBits : affinity[LastTarget] = {i})
              => last.mask = affinity[LastTarget]

\* C10: the CPU set set_proc_affinity passes to the OS is the set of the
\* i < processorCount with bit i of the mask set, so bits at or above
\* processorCount add no core, and after a successful call the affinity of
\* the target is the mask restricted to the bits below processorCount.
C10_RequestedSet ==
    last.op = "set" =>
        /\ last.req = last.cpus \cap Online(nproc)
        /\ last.status = 0 => affinity[LastTarget] = last.cpus \cap Online(nproc)

====
